---- MODULE Spec2Model ----
(***************************************************************************)
(* The constraint-model formulation layer of the course scheduler: the     *)
(* fall26 program (src/fall26/scheduler.py) and the spring-2026 program    *)
(* (src/spring-2026/scheduler.py).  A run loads the input records, builds  *)
(* the MILP (variables, constraints, objective) and hands it to the        *)
(* solver, which answers with a status and a value for every variable.     *)
(*                                                                         *)
(* Names are kept as the tuple of their fields: the f-string               *)
(* X_{course}_{instructor}_{section}_{part}_{day}_{slot} is the tuple      *)
(* <<"X", course, instructor, section, part, day, slot>>, and split('_')   *)
(* reads the fields back by position.  A course code is the sequence of    *)
(* its characters, so that course[2] and the digit extraction are          *)
(* computed as the code computes them.                                     *)
(***************************************************************************)
EXTENDS Integers, Sequences, FiniteSets, TLC

VARIABLES prog, input, excel_file, pc, df, section_capacity_map, section_type_map,
          variables, zero_constrs, slack_vars, penalty_vars, total_points,
          status, sol, ObjVal, SolCount, console, files, computeIIS, rebuilds

vars == <<prog, input, excel_file, pc, df, section_capacity_map, section_type_map,
          variables, zero_constrs, slack_vars, penalty_vars, total_points,
          status, sol, ObjVal, SolCount, console, files, computeIIS, rebuilds>>

(***************************************************************************)
(* Bounds of the search the solver is modelled with.                       *)
(***************************************************************************)
\* the most assignment variables of one part a candidate solution sets to 1
MaxOnes == 1
\* the most auxiliary (slack / Z / penalty) variables of a candidate whose
\* value differs from its violation condition
MaxFlip == 1
\* the most times the model is built again from the same input
MaxRebuilds == 2

(***************************************************************************)
(* Generic helpers.                                                        *)
(***************************************************************************)
Range(f) == {f[i] : i \in DOMAIN f}

Index(seq, x) == CHOOSE i \in DOMAIN seq : seq[i] = x

RECURSIVE SumSeq(_)
SumSeq(s) == IF s = <<>> THEN 0 ELSE Head(s) + SumSeq(Tail(s))

RECURSIVE SubsetsUpTo(_, _)
SubsetsUpTo(S, n) ==
    IF n = 0 THEN {{}}
    ELSE LET R == SubsetsUpTo(S, n - 1)
         IN  R \cup {A \cup {x} : A \in R, x \in S}

\* math.ceil(num / den) for num >= 0, den > 0
Ceil(num, den) == (num + den - 1) \div den

NaN == "NaN"

(***************************************************************************)
(* Days, slots, and the fixed tables of the two programs.                  *)
(***************************************************************************)
time_slots == <<"8:30-10:00 AM", "10:00-11:30 AM", "11:30-1:00 PM", "1:00-2:30 PM",
                "2:30-4:00 PM", "4:00-5:30 PM", "6:00-7:30 PM", "7:30-9:00 PM">>

days == <<"Monday", "Tuesday", "Wednesday", "Thursday", "Friday">>

Cells == Range(days) \X Range(time_slots)

banned_slots == {<<"Friday", "11:30-1:00 PM">>,
                 <<"Wednesday", "2:30-4:00 PM">>,
                 <<"Wednesday", "4:00-5:30 PM">>}

valid_start_times == {"8:30-10:00 AM", "6:00-7:30 PM"}

friday_start_times == {"8:30-10:00 AM", "1:00-2:30 PM", "2:30-4:00 PM",
                       "4:00-5:30 PM", "6:00-7:30 PM", "7:30-9:00 PM"}

evening_slots == {"6:00-7:30 PM", "7:30-9:00 PM"}

restricted_time_slots == {"8:30-10:00 AM", "10:00-11:30 AM", "6:00-7:30 PM", "7:30-9:00 PM"}

\* a faulty table: 1.25 and 1.20 where the code has 0.25 and 0.20
high_slot_percentages(day, slot) ==
    IF <<day, slot>> \in {<<"Friday", "11:30-1:00 PM">>, <<"Wednesday", "2:30-4:00 PM">>,
                          <<"Wednesday", "4:00-5:30 PM">>} THEN 0
    ELSE IF day = "Wednesday" /\ slot \in {"8:30-10:00 AM", "10:00-11:30 AM",
                                           "11:30-1:00 PM", "1:00-2:30 PM"} THEN 125
    ELSE 120

\* percentages are kept in hundredths: 0.20 is 20, 0.25 is 25
slot_percentages(day, slot) ==
    IF <<day, slot>> \in {<<"Friday", "11:30-1:00 PM">>, <<"Wednesday", "2:30-4:00 PM">>,
                          <<"Wednesday", "4:00-5:30 PM">>} THEN 0
    ELSE IF day = "Wednesday" /\ slot \in {"8:30-10:00 AM", "10:00-11:30 AM",
                                           "11:30-1:00 PM", "1:00-2:30 PM"} THEN 25
    ELSE 20

define_slot_percentages(day, slot) ==
    IF day = "Wednesday" /\ slot \in {"8:30-10:00 AM", "10:00-11:30 AM",
                                      "11:30-1:00 PM", "1:00-2:30 PM"} THEN 25
    ELSE IF day = "Wednesday" /\ slot \in {"2:30-4:00 PM", "4:00-5:30 PM"} THEN 0
    ELSE IF day = "Friday" /\ slot = "11:30-1:00 PM" THEN 0
    ELSE 20

evening_percentage == 20

\* course codes, as the sequence of their characters
Code(dept, d1, d2, d3) == <<dept[1], dept[2], d1, d2, d3>>
CS == <<"C", "S">>
IS == <<"I", "S">>
DS == <<"D", "S">>
IT == <<"I", "T">>
CS435 == Code(CS, "4", "3", "5")

course_blocks == <<
    {Code(CS,"1","1","4"), Code(IS,"2","1","0"), Code(CS,"4","5","0"), Code(CS,"3","3","7")},
    {Code(CS,"2","4","1"), Code(CS,"2","8","0"), Code(IS,"3","5","0")},
    {Code(CS,"2","8","8"), Code(CS,"3","3","2"), Code(CS,"3","0","1"), Code(CS,"3","5","6")},
    {Code(CS,"3","4","1"), Code(CS,"3","5","0"), Code(CS,"3","5","1"), Code(CS,"3","3","1"),
     Code(CS,"3","7","5")},
    {CS435, Code(CS,"4","9","0"), Code(CS,"4","8","5"), Code(CS,"3","7","0"),
     Code(CS,"3","7","5")},
    {Code(CS,"4","8","5"), Code(CS,"4","9","1"), Code(CS,"4","5","0"), Code(CS,"4","8","2")},
    {Code(CS,"6","1","0"), Code(CS,"6","3","0"), Code(CS,"6","3","1"), Code(CS,"6","5","6"),
     Code(DS,"6","7","5"), Code(CS,"6","7","5"), Code(CS,"6","7","0")},
    {Code(DS,"6","7","7"), Code(DS,"6","6","9"), Code(DS,"6","5","0"), Code(CS,"6","7","0"),
     Code(CS,"6","1","0"), Code(CS,"6","6","5"), Code(CS,"6","6","7"), Code(CS,"7","3","2"),
     Code(DS,"6","8","0")},
    {Code(CS,"6","0","8"), Code(CS,"6","4","5"), Code(CS,"6","4","6"), Code(CS,"6","4","7"),
     Code(CS,"6","4","8"), Code(CS,"6","7","8"), Code(CS,"6","9","6")},
    {Code(IS,"4","5","5"), Code(IS,"6","4","5")},
    {Code(IT,"2","2","0"), Code(IT,"2","3","0"), Code(IT,"2","4","0"), Code(IT,"3","0","2")},
    {Code(IT,"2","5","6"), Code(IT,"2","6","6"), Code(IT,"2","8","6"), Code(IT,"3","6","0"),
     Code(IT,"3","8","0"), Code(IT,"3","8","3"), Code(IT,"3","8","6")},
    {Code(IT,"1","2","0"), Code(IT,"2","4","0")} >>

special_blocks == {course_blocks[3], course_blocks[4]}

time_slot_mapping ==
    [a \in {"M", "T", "W", "R", "F"} |->
        CASE a = "M" -> "Monday" [] a = "T" -> "Tuesday" [] a = "W" -> "Wednesday"
          [] a = "R" -> "Thursday" [] a = "F" -> "Friday"]

time_slot_index ==
    [n \in {"1", "2", "3", "4", "5", "6", "7", "8"} |->
        time_slots[CASE n = "1" -> 1 [] n = "2" -> 2 [] n = "3" -> 3 [] n = "4" -> 4
                     [] n = "5" -> 5 [] n = "6" -> 6 [] n = "7" -> 7 [] n = "8" -> 8]]

\* df['Course'].str.extract(r'(\d+)'): the first run of digits, as a number
DigitVal ==
    [c \in {"0","1","2","3","4","5","6","7","8","9"} |->
        CASE c = "0" -> 0 [] c = "1" -> 1 [] c = "2" -> 2 [] c = "3" -> 3 [] c = "4" -> 4
          [] c = "5" -> 5 [] c = "6" -> 6 [] c = "7" -> 7 [] c = "8" -> 8 [] c = "9" -> 9]

RECURSIVE DigitRun(_, _, _)
DigitRun(course, i, acc) ==
    IF i > Len(course) \/ course[i] \notin DOMAIN DigitVal THEN acc
    ELSE DigitRun(course, i + 1, 10 * acc + DigitVal[course[i]])

\* a course code without a digit has no number (NaN); <<>> stands for it
Course_Number(course) ==
    LET ds == {i \in DOMAIN course : course[i] \in DOMAIN DigitVal}
    IN  IF ds = {} THEN <<>>
        ELSE <<DigitRun(course, CHOOSE i \in ds : \A j \in ds : i <= j, 0)>>

(***************************************************************************)
(* Input records: what the data loader reads from the workbook.            *)
(*   rows           the Assignments sheet merged with Faculty (Email)      *)
(*   pre_scheduled  the pre-scheduled sheet                                *)
(*   constraints    the Constraints & Preferences sheet; Info is the       *)
(*                  "UCID: Type" cell split at ": ", Slots the '|' list    *)
(*                  without its two empty ends                             *)
(*   general        the General Preferences sheet                          *)
(***************************************************************************)
Row(course, instructor, capacity, n, stype, email) ==
    [Course |-> course, Instructor |-> instructor, Capacity |-> capacity,
     Sections |-> n, Section_Type |-> stype, Email |-> email]

Pre(instructor, day, time) == [Instructor |-> instructor, Day |-> day, Time |-> time]

Rec(email, type, slots) == [Info |-> <<email, type>>, Slots |-> slots]

Gen(email, preference, dayPref, consPref) ==
    [Email |-> email, Preference |-> preference, DayPreference |-> dayPref,
     ConsecutivePreference |-> consPref]

CellAt(n) == <<days[((n - 1) \div 8) + 1], time_slots[((n - 1) % 8) + 1]>>

\* pre-scheduled rows that leave an instructor only the cells of `free`
Busy(instructor, free) ==
    LET all == [n \in 1..40 |-> Pre(instructor, CellAt(n)[1], CellAt(n)[2])]
    IN  SelectSeq(all, LAMBDA r : <<r.Day, r.Time>> \notin free)

At(day, n) == <<day, time_slots[n]>>

RECURSIVE Flatten(_)
Flatten(seqs) == IF seqs = <<>> THEN <<>> ELSE Head(seqs) \o Flatten(Tail(seqs))

CS100 == Code(CS, "1", "0", "0")
CS114 == Code(CS, "1", "1", "4")
IS210 == Code(IS, "2", "1", "0")
CS288 == Code(CS, "2", "8", "8")
CS332 == Code(CS, "3", "3", "2")
CS301 == Code(CS, "3", "0", "1")
CS732 == Code(CS, "7", "3", "2")
CS370 == Code(CS, "3", "7", "0")

\* a day pair at one slot, and two consecutive slots of one day
Pair(day1, day2, n) == {At(day1, n), At(day2, n)}
Run2(day, n) == {At(day, n), At(day, n + 1)}

\* A full timetable: 25 sections, each instructor left (by pre-scheduled
\* rows) only the cells listed.  Entries are <<course, instructor, sections,
\* free cells>>.  Three courses of the designated block CS288/CS332/CS301 can
\* only meet on Wednesday 8:30 + 10:00.
Timetable == <<
    <<CS288, "A", 1, Run2("Wednesday", 1)>>,
    <<CS332, "B", 1, Run2("Wednesday", 1)>>,
    <<CS301, "C", 1, Run2("Wednesday", 1)>>,
    <<Code(CS, "5", "0", "1"), "F01", 1, Pair("Monday", "Thursday", 1)>>,
    <<Code(CS, "5", "0", "2"), "F02", 1, Pair("Tuesday", "Thursday", 1)>>,
    <<Code(CS, "5", "0", "3"), "F03", 1, Pair("Tuesday", "Friday", 1)>>,
    <<Code(CS, "5", "0", "4"), "F04", 1, Pair("Monday", "Thursday", 2)>>,
    <<Code(CS, "5", "0", "5"), "F05", 1, Pair("Tuesday", "Thursday", 2)>>,
    <<Code(CS, "5", "0", "6"), "F06", 1, Pair("Tuesday", "Friday", 2)>>,
    <<Code(CS, "5", "0", "7"), "F07", 1, Pair("Monday", "Thursday", 3)>>,
    <<Code(CS, "5", "0", "8"), "F08", 1, Pair("Tuesday", "Thursday", 3)>>,
    <<Code(CS, "5", "0", "9"), "F09", 1, Pair("Monday", "Wednesday", 3)>>,
    <<Code(CS, "5", "1", "0"), "F10", 1, Pair("Monday", "Thursday", 4)>>,
    <<Code(CS, "5", "1", "1"), "F11", 1, Pair("Tuesday", "Thursday", 4)>>,
    <<Code(CS, "5", "1", "2"), "F12", 1, Pair("Monday", "Wednesday", 4)>>,
    <<Code(CS, "5", "1", "3"), "F13", 1, Pair("Monday", "Thursday", 5)>>,
    <<Code(CS, "5", "1", "4"), "F14", 1, Pair("Tuesday", "Thursday", 5)>>,
    <<Code(CS, "5", "1", "5"), "F15", 1, Pair("Monday", "Thursday", 6)>>,
    <<Code(CS, "5", "1", "6"), "F16", 1, Pair("Tuesday", "Thursday", 6)>>,
    <<Code(CS, "5", "1", "7"), "F17", 1, Pair("Tuesday", "Friday", 6)>>,
    <<Code(CS, "5", "1", "8"), "F18", 1, Run2("Monday", 1)>>,
    <<Code(CS, "5", "1", "9"), "F19", 1, Run2("Friday", 1)>>,
    <<Code(CS, "5", "2", "0"), "F20", 1, Run2("Friday", 5)>>,
    <<Code(CS, "5", "2", "1"), "F21", 2,
      Pair("Wednesday", "Friday", 4) \cup Pair("Tuesday", "Friday", 5)>>
  >>

\* the instructors of input 19 and the cells where each of them is free
ThreePartStaff == <<
    <<"A",   Pair("Monday", "Thursday", 1) \cup {At("Monday", 7)}>>,
    <<"F01", Pair("Tuesday", "Friday", 1) \cup {At("Wednesday", 2)}>>,
    <<"F02", Pair("Monday", "Thursday", 2) \cup {At("Wednesday", 1)}>>,
    <<"F03", Pair("Tuesday", "Friday", 2) \cup {At("Wednesday", 1)}>>,
    <<"F04", Pair("Monday", "Thursday", 3) \cup {At("Wednesday", 2)}>>,
    <<"F05", Pair("Monday", "Thursday", 4) \cup {At("Wednesday", 3)}>>,
    <<"F06", Pair("Tuesday", "Friday", 4) \cup {At("Wednesday", 3)}>>,
    <<"F07", Pair("Monday", "Thursday", 5) \cup {At("Wednesday", 4)}>>,
    <<"F08", Pair("Tuesday", "Friday", 5) \cup {At("Wednesday", 4)}>>,
    <<"F09", Pair("Tuesday", "Friday", 6) \cup {At("Tuesday", 3)}>>
  >>

\* the instructors of the off-site sections of input 16
OffSiteStaff ==
    <<"F01", "F02", "F03", "F04", "F05", "F06", "F07", "F08", "F09", "F10", "F11",
      "F12", "F13", "F14">>

Instances == <<
    \* 1: one instructor, one course, two sections
    [rows |-> << Row(CS100, "A", 30, 2, "", "a") >>,
     pre_scheduled |-> <<>>, constraints |-> <<>>, general |-> <<>>, columns |-> 3],
    \* 2: two off-site sections of one instructor and one of another, block courses
    [rows |-> << Row(CS114, "A", 30, 2, "Jersey City", "a"),
                 Row(IS210, "B", 30, 1, "Jersey City", "b") >>,
     pre_scheduled |-> <<>>, constraints |-> <<>>, general |-> <<>>, columns |-> 3],
    \* 3: the full timetable
    [rows |-> [n \in DOMAIN Timetable |->
                  Row(Timetable[n][1], Timetable[n][2], 30, Timetable[n][3], "",
                      Timetable[n][2])],
     pre_scheduled |-> Flatten([n \in DOMAIN Timetable |->
                                  Busy(Timetable[n][2], Timetable[n][4])]),
     constraints |-> <<>>, general |-> <<>>, columns |-> 3],
    \* 4: a Health record that lists Monday 8:30 twice, for an instructor who
    \*    can only teach Monday + Wednesday 8:30
    [rows |-> << Row(CS100, "H", 30, 1, "", "h") >>,
     pre_scheduled |-> Busy("H", Pair("Monday", "Wednesday", 1)),
     constraints |-> << Rec("h", "Health", << <<"M", "1">>, <<"M", "1">> >>) >>,
     general |-> <<>>, columns |-> 3],
    \* 5: a course shared by two instructors, the first row having fewer
    \*    sections; Religion record of the second instructor
    [rows |-> << Row(CS100, "B", 30, 1, "", "b"), Row(CS100, "A", 30, 2, "", "a") >>,
     pre_scheduled |-> Busy("B", Pair("Tuesday", "Thursday", 3))
                       \o Busy("A", Pair("Monday", "Wednesday", 1)
                                    \cup Pair("Tuesday", "Thursday", 2)),
     constraints |-> << Rec("a", "Religion", << <<"M", "1">> >>) >>,
     general |-> <<>>, columns |-> 3],
    \* 6: Health on Monday 8:30 against Childcare on Tuesday and Thursday
    \*    10:00 and one more record on Tuesday 10:00
    [rows |-> << Row(CS100, "P", 30, 1, "", "p") >>,
     pre_scheduled |-> Busy("P", Pair("Monday", "Wednesday", 1)
                                 \cup Pair("Tuesday", "Thursday", 2)),
     constraints |-> << Rec("p", "Health", << <<"M", "1">> >>),
                        Rec("p", "Childcare", << <<"T", "2">>, <<"R", "2">> >>),
                        Rec("p", "Other", << <<"T", "2">> >>) >>,
     general |-> <<>>, columns |-> 3],
    \* 7: general preferences: 3-hour format, fewer days, no consecutive slots
    [rows |-> << Row(CS100, "P", 30, 1, "", "p") >>,
     pre_scheduled |-> Busy("P", Run2("Monday", 1) \cup {At("Wednesday", 2)}),
     constraints |-> << Rec("p", "Health", << <<"W", "2">> >>) >>,
     general |-> << Gen("p", "3-hour format",
                        "I prefer to condense my sections into fewer days", "No") >>,
     columns |-> 6],
    \* 8: general preferences: 1.5+1.5 hour format
    [rows |-> << Row(CS100, "Q", 30, 1, "", "q") >>,
     pre_scheduled |-> Busy("Q", Run2("Monday", 1) \cup {At("Wednesday", 2)}),
     constraints |-> <<>>,
     general |-> << Gen("q", "1.5+1.5 hour format", "No preference", "Yes") >>,
     columns |-> 6],
    \* 9: an instructor with a single free cell: no placement of two parts
    [rows |-> << Row(CS100, "N", 30, 1, "", "n") >>,
     pre_scheduled |-> Busy("N", {At("Monday", 1)}),
     constraints |-> <<>>, general |-> <<>>, columns |-> 3],
    \* 10: slot codes of one character before well-formed codes
    [rows |-> << Row(CS100, "P", 30, 1, "", "p") >>,
     pre_scheduled |-> Busy("P", Pair("Monday", "Wednesday", 1)
                                 \cup Pair("Tuesday", "Thursday", 2)),
     constraints |-> << Rec("p", "Health", << <<"M">>, <<"M", "1">> >>),
                        Rec("p", "Pref-1", << <<"T">>, <<"T", "2">> >>) >>,
     general |-> <<>>, columns |-> 3],
    \* 11: a slot code with an unknown day letter before well-formed codes
    [rows |-> << Row(CS100, "P", 30, 1, "", "p") >>,
     pre_scheduled |-> Busy("P", Pair("Monday", "Wednesday", 1)
                                 \cup Pair("Tuesday", "Thursday", 2)),
     constraints |-> << Rec("p", "Pref-1", << <<"X", "1">>, <<"T", "2">> >>),
                        Rec("p", "Childcare", << <<"R", "2">> >>) >>,
     general |-> <<>>, columns |-> 3],
    \* 12: two offering rows of one (course, instructor) pair, the larger
    \*     capacity first, with different section types
    [rows |-> << Row(CS114, "A", 40, 1, "Jersey City", "a"),
                 Row(CS114, "A", 20, 1, "", "a") >>,
     pre_scheduled |-> Busy("A", Pair("Monday", "Wednesday", 1)
                                 \cup Pair("Tuesday", "Thursday", 2)),
     constraints |-> <<>>, general |-> <<>>, columns |-> 3],
    \* 13: two offering rows of one (course, instructor) pair, the first with
    \*     no section
    [rows |-> << Row(CS100, "A", 30, 0, "", "a"), Row(CS100, "A", 20, 1, "", "a") >>,
     pre_scheduled |-> Busy("A", Pair("Monday", "Wednesday", 1)
                                 \cup Pair("Tuesday", "Thursday", 2)),
     constraints |-> <<>>, general |-> <<>>, columns |-> 3],
    \* 14: two sections of one 300-level pair, capacities 20 and 40, with
    \*     Monday 4:00-5:30 PM free for the instructor
    [rows |-> << Row(CS301, "A", 20, 1, "", "a"), Row(CS301, "A", 40, 1, "", "a") >>,
     pre_scheduled |-> Busy("A", Pair("Monday", "Wednesday", 6)
                                 \cup Pair("Tuesday", "Thursday", 2)),
     constraints |-> <<>>, general |-> <<>>, columns |-> 3],
    \* 15: two instructors who both prefer Monday + Wednesday 8:30 and two
    \*     off-site sections that can only meet on Monday evening
    [rows |-> << Row(CS100, "A", 30, 1, "", "a"), Row(CS100, "B", 30, 1, "", "b"),
                 Row(CS114, "P", 30, 1, "Jersey City", "p"),
                 Row(IS210, "Q", 30, 1, "Jersey City", "q") >>,
     pre_scheduled |-> Busy("A", Pair("Monday", "Wednesday", 1)
                                 \cup Pair("Tuesday", "Thursday", 2))
                       \o Busy("B", Pair("Monday", "Wednesday", 1)
                                    \cup Pair("Tuesday", "Thursday", 3))
                       \o Busy("P", Run2("Monday", 7)) \o Busy("Q", Run2("Monday", 7)),
     constraints |-> <<>>, general |-> <<>>, columns |-> 3],
    \* 16: fifteen sections: fourteen off-site sections, at most three a day,
    \*     and one section whose instructor is free on Monday evening only
    [rows |-> [n \in 1..15 |->
                  IF n = 15 THEN Row(CS100, "A", 30, 1, "", "a")
                  ELSE Row(CS114, OffSiteStaff[n], 30, 1, "Jersey City", OffSiteStaff[n])],
     pre_scheduled |-> Flatten([n \in 1..15 |->
                                  IF n = 15 THEN Busy("A", Run2("Monday", 7))
                                  ELSE Busy(OffSiteStaff[n],
                                            Run2(days[((n - 1) \div 3) + 1], 7))]),
     constraints |-> <<>>, general |-> <<>>, columns |-> 3],
    \* 17: a 700-level course (middle digit 3) and a 300-level course with
    \*     middle digit 7, both instructors free on Monday + Wednesday 8:30
    [rows |-> << Row(CS732, "A", 30, 1, "", "a"), Row(CS370, "B", 30, 1, "", "b") >>,
     pre_scheduled |-> Busy("A", Pair("Monday", "Wednesday", 1)
                                 \cup Pair("Tuesday", "Thursday", 2))
                       \o Busy("B", Pair("Monday", "Wednesday", 1)
                                    \cup Pair("Tuesday", "Thursday", 3)),
     constraints |-> <<>>, general |-> <<>>, columns |-> 3],
    \* 18: one section of the three-part course, its instructor free on
    \*     Monday + Wednesday 8:30 and Tuesday 10:00
    [rows |-> << Row(CS435, "A", 30, 1, "", "a") >>,
     pre_scheduled |-> Busy("A", Pair("Monday", "Wednesday", 1) \cup {At("Tuesday", 2)}),
     constraints |-> <<>>, general |-> <<>>, columns |-> 3],
    \* 19: ten sections of the three-part course (30 parts), one instructor
    \*     each; every instructor is free in one day pair and one more cell
    [rows |-> [n \in DOMAIN ThreePartStaff |->
                  Row(CS435, ThreePartStaff[n][1], 30, 1, "", ThreePartStaff[n][1])],
     pre_scheduled |-> Flatten([n \in DOMAIN ThreePartStaff |->
                                  Busy(ThreePartStaff[n][1], ThreePartStaff[n][2])]),
     constraints |-> <<>>, general |-> <<>>, columns |-> 3],
    \* 20: an empty row of the Constraints & Preferences sheet ahead of a
    \*     Health record of a roster instructor
    [rows |-> << Row(CS100, "A", 30, 1, "", "a") >>,
     pre_scheduled |-> Busy("A", Pair("Monday", "Wednesday", 1)
                                    \cup Pair("Tuesday", "Thursday", 2)),
     constraints |-> << [Info |-> <<>>, Slots |-> <<>>],
                        Rec("a", "Health", << <<"M", "1">> >>) >>,
     general |-> <<>>, columns |-> 3]
  >>

Runs == {<<"fall26", 1>>, <<"fall26", 2>>, <<"fall26", 4>>, <<"fall26", 6>>,
         <<"fall26", 7>>, <<"fall26", 8>>, <<"fall26", 9>>, <<"fall26", 10>>,
         <<"fall26", 11>>, <<"fall26", 12>>, <<"fall26", 14>>,
         <<"fall26", 15>>, <<"fall26", 16>>, <<"fall26", 17>>, <<"fall26", 20>>,
         <<"spring-2026", 1>>, <<"spring-2026", 3>>, <<"spring-2026", 4>>,
         <<"spring-2026", 5>>, <<"spring-2026", 7>>, <<"spring-2026", 9>>,
         <<"spring-2026", 10>>, <<"spring-2026", 12>>, <<"spring-2026", 13>>,
         <<"spring-2026", 17>>,
         <<"spring-2026", 18>>, <<"spring-2026", 19>>}

\* the sheets of the workbook the run reads
Data == excel_file

(***************************************************************************)
(* load_and_process_data / load_data.                                      *)
(***************************************************************************)
\* the order of Python strings, on the characters of course codes
Alphabet ==
    <<"0", "1", "2", "3", "4", "5", "6", "7", "8", "9",
      "A", "B", "C", "D", "E", "F", "G", "H", "I", "J", "K", "L", "M",
      "N", "O", "P", "Q", "R", "S", "T", "U", "V", "W", "X", "Y", "Z">>

RECURSIVE StrLess(_, _)
StrLess(a, b) ==
    IF b = <<>> THEN FALSE
    ELSE IF a = <<>> THEN TRUE
    ELSE IF Head(a) = Head(b) THEN StrLess(Tail(a), Tail(b))
    ELSE Index(Alphabet, Head(a)) < Index(Alphabet, Head(b))

\* the instructor names of the inputs, in the order of Python strings
InstructorOrder ==
    <<"A", "B", "C", "F01", "F02", "F03", "F04", "F05", "F06", "F07", "F08", "F09",
      "F10", "F11", "F12", "F13", "F14", "F15", "F16", "F17", "F18", "F19", "F20",
      "F21", "H", "N", "P", "Q">>

KeyLess(k1, k2) ==
    \/ StrLess(k1[1], k2[1])
    \/ k1[1] = k2[1] /\ Index(InstructorOrder, k1[2]) < Index(InstructorOrder, k2[2])

\* the (Course, Instructor) groups in key order; a group with a missing
\* Course_Number or Email is dropped
RECURSIVE GroupKeys(_)
GroupKeys(keys) ==
    IF keys = {} THEN <<>>
    ELSE LET k == CHOOSE x \in keys : \A y \in keys \ {x} : KeyLess(x, y)
         IN  <<k>> \o GroupKeys(keys \ {k})

PairRows(rows, course, instructor) ==
    SelectSeq(rows, LAMBDA r : r.Course = course /\ r.Instructor = instructor)

\* fall26: df.groupby(['Course','Instructor','Course_Number','Email']).agg(sum)
aggregated_df(rows) ==
    LET keys == GroupKeys({<<rows[r].Course, rows[r].Instructor>> :
                             r \in {x \in DOMAIN rows :
                                      /\ rows[x].Email # NaN
                                      /\ Course_Number(rows[x].Course) # <<>>}})
    IN  [g \in DOMAIN keys |->
            LET pr == PairRows(rows, keys[g][1], keys[g][2])
            IN  [Course |-> keys[g][1], Instructor |-> keys[g][2],
                 Course_Number |-> Course_Number(keys[g][1]),
                 Email |-> pr[1].Email,
                 Sections |-> SumSeq([j \in DOMAIN pr |-> pr[j].Sections])]]

\* spring-2026: main passes the merged, un-aggregated frame to every builder
merged_df(rows) ==
    [r \in DOMAIN rows |->
        [Course |-> rows[r].Course, Instructor |-> rows[r].Instructor,
         Capacity |-> rows[r].Capacity,
         Course_Number |-> Course_Number(rows[r].Course),
         Email |-> rows[r].Email, Sections |-> rows[r].Sections]]

RECURSIVE SortByCapacity(_)
SortByCapacity(rows) ==
    IF rows = <<>> THEN <<>>
    ELSE LET m == CHOOSE i \in DOMAIN rows :
                    \A j \in DOMAIN rows :
                        rows[i].Capacity < rows[j].Capacity
                        \/ (rows[i].Capacity = rows[j].Capacity /\ i <= j)
         IN  <<rows[m]>> \o SortByCapacity(SubSeq(rows, 1, m - 1)
                                            \o SubSeq(rows, m + 1, Len(rows)))

\* the value of every section 1..N of one (course, instructor) group, row by row
RECURSIVE Numbered(_, _)
Numbered(rows, field) ==
    IF rows = <<>> THEN <<>>
    ELSE [j \in 1..Head(rows).Sections |-> Head(rows)[field]] \o Numbered(Tail(rows), field)

SectionMap(rows, sorted, field) ==
    LET pairs == {<<rows[r].Course, rows[r].Instructor>> : r \in DOMAIN rows}
        vals(p) == Numbered(IF sorted THEN SortByCapacity(PairRows(rows, p[1], p[2]))
                            ELSE PairRows(rows, p[1], p[2]), field)
        keys == UNION {{<<p[1], p[2], n>> : n \in DOMAIN vals(p)} : p \in pairs}
    IN  [k \in keys |-> vals(<<k[1], k[2]>>)[k[3]]]

create_section_capacity_map(rows) == SectionMap(rows, TRUE, "Capacity")

create_section_type_map(rows) == SectionMap(rows, FALSE, "Section_Type")

(***************************************************************************)
(* Variable generator.                                                     *)
(***************************************************************************)
XName(course, instructor, section_id, part, day, slot) ==
    <<"X", course, instructor, section_id, part, day, slot>>

\* fall26 always uses parts [1, 2]; spring-2026 gives CS435 parts [1, 2, 3]
parts(course) == IF prog = "spring-2026" /\ course = CS435 THEN {1, 2, 3} ELSE {1, 2}

\* a faulty generator: variables for part 1 only
create_part1_variables(frame) ==
    UNION {{XName(frame[r].Course, frame[r].Instructor, k, 1, c[1], c[2]) :
              k \in 1..frame[r].Sections, c \in Cells}
           : r \in DOMAIN frame}

create_decision_variables(frame) ==
    UNION {{XName(frame[r].Course, frame[r].Instructor, k, p, c[1], c[2]) :
              k \in 1..frame[r].Sections, p \in parts(frame[r].Course), c \in Cells}
           : r \in DOMAIN frame}

\* df['Instructor'].unique(), df[df['Instructor'] == instructor]
Instructors == {df[r].Instructor : r \in DOMAIN df}

RowsOf(instructor) == {r \in DOMAIN df : df[r].Instructor = instructor}

\* the (row, section, part) triples the loops over an instructor's rows visit
RowSecParts(instructor) ==
    UNION {{<<r, k, p>> : k \in 1..df[r].Sections, p \in parts(df[r].Course)}
           : r \in RowsOf(instructor)}

NameAt(t, day, slot) == XName(df[t[1]].Course, df[t[1]].Instructor, t[2], t[3], day, slot)

\* course_instructor_rows.iloc[0]: the first row of a (course, instructor) pair
FirstRow(course, instructor) ==
    df[CHOOSE r \in DOMAIN df :
          /\ df[r].Course = course /\ df[r].Instructor = instructor
          /\ \A q \in DOMAIN df :
                (df[q].Course = course /\ df[q].Instructor = instructor) => r <= q]

\* the sections the pattern builder visits: 1..iloc[0]['# Sections'] of each pair
PatternSections ==
    UNION {{<<df[r].Course, df[r].Instructor, k>> :
              k \in 1..FirstRow(df[r].Course, df[r].Instructor).Sections}
           : r \in DOMAIN df}

IsJC(stype) == stype \in {"Jersey City", "jersey city"}

\* is_jc_var: section_type_map.get((course, instructor, section_id), "")
is_jc_var(v) ==
    /\ Len(v) >= 7
    /\ <<v[2], v[3], v[4]>> \in DOMAIN section_type_map
    /\ IsJC(section_type_map[<<v[2], v[3], v[4]>>])

(***************************************************************************)
(* Constraints that force single assignment variables to 0.  Each          *)
(* operator gives the set of variables its builder forces to 0.            *)
(***************************************************************************)
\* a faulty builder: the entry blocks its (day, slot) for every instructor
block_day_slot(V) ==
    LET busy == {<<Data.pre_scheduled[r].Day, Data.pre_scheduled[r].Time>> :
                   r \in DOMAIN Data.pre_scheduled}
    IN  {v \in V : Len(v) >= 7 /\ <<v[6], v[7]>> \in busy}

add_pre_scheduled_constraints(V) ==
    LET busy == {<<Data.pre_scheduled[r].Instructor, Data.pre_scheduled[r].Day,
                   Data.pre_scheduled[r].Time>> : r \in DOMAIN Data.pre_scheduled}
    IN  {v \in V : Len(v) >= 7 /\ <<v[3], v[6], v[7]>> \in busy}

\* a faulty builder: no variable is forced to 0 at a banned cell
no_banned_slot(V) == {}

BANNED_SLOT(V) == {v \in V : Len(v) >= 7 /\ <<v[6], v[7]>> \in banned_slots}

\* a faulty rule: the middle digit of the course number is tested
no_8_30_to_10_middle7(V) ==
    {v \in V : /\ <<v[2], v[3], v[4]>> \in PatternSections
               /\ Len(v[2]) >= 4 /\ v[2][4] = "7"
               /\ v[5] = 1 /\ v[7] = "8:30-10:00 AM"}

no_8_30_to_10_CS7XX(V) ==
    {v \in V : /\ <<v[2], v[3], v[4]>> \in PatternSections
               /\ Len(v[2]) >= 3 /\ v[2][3] = "7"
               /\ v[5] = 1 /\ v[7] = "8:30-10:00 AM"}

\* the Monday 4:00-5:30 PM rule: one section of a row failing the test
\* forces every section of that row to 0 there
restricted_slot(V) ==
    LET number(r) == IF df[r].Course_Number = <<>> THEN 0 ELSE df[r].Course_Number[1]
        meets(r, sc) ==
            LET key == <<df[r].Course, df[r].Instructor, sc>>
            IN  /\ number(r) > 199
                /\ key \in DOMAIN section_capacity_map
                /\ (prog = "fall26" => section_capacity_map[key] # 0)
                /\ section_capacity_map[key] < 35
        failing == {r \in DOMAIN df : \E sc \in 1..df[r].Sections : ~meets(r, sc)}
    IN  {v \in V : /\ v[6] = "Monday" /\ v[7] = "4:00-5:30 PM"
                   /\ \E r \in failing :
                         /\ v[2] = df[r].Course /\ v[3] = df[r].Instructor
                         /\ v[4] \in 1..df[r].Sections /\ v[5] \in parts(df[r].Course)}

\* a faulty builder: off-site sections pinned to the first two morning slots
JC_morning_fix(V) ==
    {v \in V : /\ is_jc_var(v)
               /\ \/ v[5] = 1 /\ v[7] # "8:30-10:00 AM"
                  \/ v[5] = 2 /\ v[7] # "10:00-11:30 AM"}

JC_fix(V) ==
    {v \in V : /\ is_jc_var(v)
               /\ \/ v[5] = 1 /\ v[7] # "6:00-7:30 PM"
                  \/ v[5] = 2 /\ v[7] # "7:30-9:00 PM"}

ZeroConstraints(V) ==
    IF prog = "fall26"
    THEN add_pre_scheduled_constraints(V) \cup BANNED_SLOT(V) \cup no_8_30_to_10_CS7XX(V)
         \cup restricted_slot(V) \cup JC_fix(V)
    ELSE add_pre_scheduled_constraints(V) \cup no_8_30_to_10_CS7XX(V) \cup restricted_slot(V)

(***************************************************************************)
(* Pattern constraints.  A pairing variable Y(day1, slot1, day2, slot2) is *)
(* kept as the pair <<cell1, cell2>> of its two cells.                     *)
(***************************************************************************)
SlotIndex(slot) == Index(time_slots, slot)

undergrad_day_pairs(day1, day2) ==
    \/ day1 = "Monday" /\ day2 \in {"Wednesday", "Thursday"}
    \/ day1 = "Tuesday" /\ day2 \in {"Thursday", "Friday"}
    \/ day1 = "Wednesday" /\ day2 = "Friday"

\* which constraint the builder adds for Y: y <= grad_var ("Grad"),
\* y <= undergrad_var ("Undergrad") or y == 0 ("Zero")
PatternOf(day1, slot1, day2, slot2) ==
    IF day1 = day2
    THEN IF day1 = "Friday"
         THEN IF slot1 \in friday_start_times /\ SlotIndex(slot2) = SlotIndex(slot1) + 1
              THEN "Grad" ELSE "Zero"
         ELSE IF slot1 \in valid_start_times /\ SlotIndex(slot2) = SlotIndex(slot1) + 1
              THEN "Grad" ELSE "Zero"
    ELSE IF slot1 = slot2
         THEN IF undergrad_day_pairs(day1, day2) THEN "Undergrad" ELSE "Zero"
         ELSE "Zero"

PairPattern(q) == PatternOf(q[1][1], q[1][2], q[2][1], q[2][2])

AllowedPairs == {q \in Cells \X Cells : PairPattern(q) # "Zero"}

\* values of (Y, Grad, Undergrad) of one section that satisfy the pattern
\* bounds, select_one_pair and select_one_pattern
PatternCands ==
    {r \in [Y : SubsetsUpTo(AllowedPairs, MaxOnes), Grad : {0, 1}, Undergrad : {0, 1}] :
        /\ \A q \in r.Y : /\ PairPattern(q) = "Grad" => 1 <= r.Grad
                          /\ PairPattern(q) = "Undergrad" => 1 <= r.Undergrad
        /\ Cardinality(r.Y) = 1
        /\ r.Grad + r.Undergrad = 1}

\* the cells of a part that have an assignment variable
VarCells(key, part) ==
    {c \in Cells : XName(key[1], key[2], key[3], part, c[1], c[2]) \in variables}

\* part1_link / part2_link: X(part, cell) = sum of the Y with that cell as
\* their cell number `part`; no value of X exists when a sum exceeds 1
LinkCands(key, part, ys) ==
    LET n(c) == Cardinality({q \in ys : q[part] = c})
    IN  IF \E c \in VarCells(key, part) : n(c) > 1 THEN {}
        ELSE {{c \in VarCells(key, part) : n(c) = 1}}

\* a part without link constraints: any cells whose variable is not forced to 0
FreeCands(key, part) ==
    SubsetsUpTo({c \in VarCells(key, part) :
                    XName(key[1], key[2], key[3], part, c[1], c[2]) \notin zero_constrs},
                MaxOnes)

PartCands(key, part, ys) ==
    IF key \in PatternSections /\ part \in {1, 2}
    THEN LinkCands(key, part, ys) ELSE FreeCands(key, part)

\* unique_slot: a part that has variables has exactly one of them at 1
unique_slot(key, part, cells) == VarCells(key, part) # {} => Cardinality(cells) = 1

\* timing_constraint: X(part 1, day, 6:00-7:30 PM) = X(part 2, day, 7:30-9:00 PM)
timing_constraint(key, x1, x2) ==
    \A d \in Range(days) :
        (/\ <<d, "6:00-7:30 PM">> \in VarCells(key, 1)
         /\ <<d, "7:30-9:00 PM">> \in VarCells(key, 2))
        => (<<d, "6:00-7:30 PM">> \in x1 <=> <<d, "7:30-9:00 PM">> \in x2)

SectionX(key, part, cells) ==
    {XName(key[1], key[2], key[3], part, c[1], c[2]) : c \in cells}

\* every valuation of one section's variables satisfying the constraints
\* that mention that section only
SectionCands(key) ==
    LET ycs == IF key \in PatternSections THEN PatternCands
               ELSE {[Y |-> {}, Grad |-> 0, Undergrad |-> 0]}
        make(r, x1, x2, x3) ==
            [X |-> SectionX(key, 1, x1) \cup SectionX(key, 2, x2) \cup SectionX(key, 3, x3),
             Y |-> {<<"Y", key[1], key[2], key[3], q[1][1], q[1][2], q[2][1], q[2][2]>> :
                      q \in r.Y},
             Grad |-> IF r.Grad = 1 THEN {<<"Grad", key[1], key[2], key[3]>>} ELSE {},
             Undergrad |-> IF r.Undergrad = 1
                           THEN {<<"Undergrad", key[1], key[2], key[3]>>} ELSE {}]
        of(r) == {make(r, x[1], x[2], x[3]) :
                    x \in {y \in PartCands(key, 1, r.Y) \X PartCands(key, 2, r.Y)
                                    \X PartCands(key, 3, r.Y) :
                             /\ unique_slot(key, 1, y[1])
                             /\ unique_slot(key, 2, y[2])
                             /\ unique_slot(key, 3, y[3])
                             /\ timing_constraint(key, y[1], y[2])}}
    IN  {s \in UNION {of(r) : r \in ycs} : s.X \cap zero_constrs = {}}

(***************************************************************************)
(* Constraints over several sections.  Each operator says whether the set  *)
(* X of assignment variables at 1 satisfies every constraint of a family.  *)
(***************************************************************************)
\* 2 * sum of '# Sections' (+ the CS435 sections in spring-2026)
total_section_parts ==
    2 * SumSeq([r \in DOMAIN df |-> df[r].Sections])
    + IF prog = "spring-2026"
      THEN SumSeq([r \in DOMAIN df |-> IF df[r].Course = CS435 THEN df[r].Sections ELSE 0])
      ELSE 0

\* math.ceil((percentage / 6) * total_section_parts), percentage in hundredths
max_section_parts_slot(percentage) == Ceil(percentage * total_section_parts, 600)

balance_slot(X) ==
    IF prog = "fall26"
    THEN \A c \in Cells \ banned_slots :
            Cardinality({v \in X : v[6] = c[1] /\ v[7] = c[2] /\ ~is_jc_var(v)})
               <= max_section_parts_slot(slot_percentages(c[1], c[2]))
    ELSE \A c \in Cells :
            Cardinality({v \in X : v[6] = c[1] /\ v[7] = c[2]})
               <= max_section_parts_slot(define_slot_percentages(c[1], c[2]))

\* sum(evening_vars) <= (evening_percentage / 6) * total_section_parts
balance_evening(X) ==
    \A slot \in evening_slots :
        600 * Cardinality({v \in X : v[7] = slot /\ (prog = "fall26" => ~is_jc_var(v))})
           <= evening_percentage * total_section_parts

\* a faulty limit: two section parts of an instructor may share a cell
two_sections_per_slot(X) ==
    \A instructor \in {df[r].Instructor : r \in DOMAIN df} : \A c \in Cells :
        Cardinality({v \in X : v[3] = instructor /\ v[6] = c[1] /\ v[7] = c[2]}) <= 2

\* the loops append one term per (row, section, part): a variable reached
\* through two rows is counted twice
one_section_per_slot(X) ==
    \A instructor \in Instructors : \A c \in Cells :
        LET instructor_vars == {t \in RowSecParts(instructor) :
                                   NameAt(t, c[1], c[2]) \in variables}
        IN  instructor_vars # {} =>
               Cardinality({t \in instructor_vars : NameAt(t, c[1], c[2]) \in X}) <= 1

Different(t1, t2) ==
    df[t1[1]].Course # df[t2[1]].Course \/ t1[2] # t2[2] \/ t1[3] # t2[3]

\* a faulty builder: no limit on consecutive slots
no_consecutive_slots_constraints(X) == TRUE

\* consecutive_sum <= 2 for three different section parts of an instructor in
\* three consecutive slots of a day: fails exactly when all three are at 1
\* (spring-2026 adds it under 'if consecutive_sum > 0', a test on a linear
\* expression that holds at least one variable; it is taken as passed)
add_consecutive_slots_constraints(X) ==
    \A instructor \in Instructors : \A day \in Range(days) : \A i \in 1..(Len(time_slots) - 2) :
        \A t1 \in RowSecParts(instructor) :
            NameAt(t1, day, time_slots[i]) \in X =>
               \A t2 \in RowSecParts(instructor) :
                  (Different(t1, t2) /\ NameAt(t2, day, time_slots[i + 1]) \in X) =>
                     \A t3 \in RowSecParts(instructor) :
                        (Different(t2, t3) /\ Different(t1, t3))
                           => NameAt(t3, day, time_slots[i + 2]) \notin X

add_restricted_time_slots_constraints(X) ==
    \A instructor \in Instructors : \A day \in Range(days) :
        Cardinality({ts \in RowSecParts(instructor) \X restricted_time_slots :
                        NameAt(ts[1], day, ts[2]) \in X}) <= 3

InstructorsOf(course) == {df[r].Instructor : r \in {q \in DOMAIN df : df[q].Course = course}}

\* fall26: the names are built without the section id
\* (X_{course}_{instructor}_{part}_{day}_{slot}), so they are looked up in
\* `variables` under a key no assignment variable has
no_same_day_slot(X) ==
    \A b \in DOMAIN course_blocks : \A course1 \in course_blocks[b], course2 \in course_blocks[b] :
        course1 # course2 =>
           \A instructor1 \in InstructorsOf(course1), instructor2 \in InstructorsOf(course2) :
              \A c \in Cells, part \in {1, 2} :
                 LET var_course1 == <<"X", course1, instructor1, part, c[1], c[2]>>
                     var_course2 == <<"X", course2, instructor2, part, c[1], c[2]>>
                     max_constraint == IF course_blocks[b] \in special_blocks THEN 2 ELSE 1
                     val(v) == IF v \in X THEN 1 ELSE 0
                 IN  (var_course1 \in variables /\ var_course2 \in variables)
                        => val(var_course1) + val(var_course2) <= max_constraint

\* spring-2026: sum(vars1) + sum(vars2) <= max_constraint for every ordered
\* pair of different courses of a block and every pair of their instructors
block_constraint(X) ==
    \A b \in DOMAIN course_blocks : \A course1 \in course_blocks[b], course2 \in course_blocks[b] :
        course1 # course2 =>
           \A instructor1 \in InstructorsOf(course1), instructor2 \in InstructorsOf(course2) :
              \A c \in Cells, part \in {1, 2} :
                 LET sections(course, instructor) ==
                         SumSeq([r \in DOMAIN df |->
                                   IF df[r].Course = course /\ df[r].Instructor = instructor
                                   THEN df[r].Sections ELSE 0])
                     block_vars(course, instructor) ==
                         {k \in 1..sections(course, instructor) :
                             XName(course, instructor, k, part, c[1], c[2]) \in variables}
                     ones(course, instructor) ==
                         Cardinality({k \in block_vars(course, instructor) :
                             XName(course, instructor, k, part, c[1], c[2]) \in X})
                     max_constraint == IF course_blocks[b] \in special_blocks THEN 2 ELSE 1
                 IN  (block_vars(course1, instructor1) # {} /\ block_vars(course2, instructor2) # {})
                        => ones(course1, instructor1) + ones(course2, instructor2)
                              <= max_constraint

JCKeys == {key \in DOMAIN section_type_map : IsJC(section_type_map[key])}

JC_max3_per_day(X) ==
    \A day \in Range(days) :
        Cardinality({key \in JCKeys :
            XName(key[1], key[2], key[3], 1, day, "6:00-7:30 PM") \in X}) <= 3

JC_travel_buffer(X) ==
    \A instructor \in Instructors : \A day \in Range(days) :
        LET jc_vars == {XName(key[1], instructor, key[3], 1, day, "6:00-7:30 PM") :
                           key \in {k \in JCKeys : k[2] = instructor}} \cap variables
            other_prevslot_vars ==
                {XName(kp[1][1], instructor, kp[1][3], kp[2], day, "4:00-5:30 PM") :
                    kp \in {k \in DOMAIN section_type_map \ JCKeys : k[2] = instructor}
                           \X {1, 2}} \cap variables
        IN  \A v_jc \in jc_vars, v_other \in other_prevslot_vars :
               ~(v_jc \in X /\ v_other \in X)

CrossOK(X) ==
    /\ one_section_per_slot(X)
    /\ balance_slot(X)
    /\ balance_evening(X)
    /\ add_restricted_time_slots_constraints(X)
    /\ add_consecutive_slots_constraints(X)
    /\ IF prog = "fall26"
       THEN no_same_day_slot(X) /\ JC_max3_per_day(X) /\ JC_travel_buffer(X)
       ELSE block_constraint(X)

NoSol == [X |-> {}, Y |-> {}, Grad |-> {}, Undergrad |-> {}, Aux |-> {}]

Merge(s, c) ==
    [X |-> s.X \cup c.X, Y |-> s.Y \cup c.Y, Grad |-> s.Grad \cup c.Grad,
     Undergrad |-> s.Undergrad \cup c.Undergrad, Aux |-> s.Aux]

\* the sections that have assignment variables
SectionKeys == {<<v[2], v[3], v[4]>> : v \in variables}

\* every constraint over several sections is an upper bound on a sum of
\* assignment variables, so a violated partial valuation cannot be completed
RECURSIVE Combine(_, _)
Combine(keys, partial) ==
    IF keys = {} \/ partial = {} THEN partial
    ELSE LET key == CHOOSE k \in keys : TRUE
         IN  Combine(keys \ {key},
                     {m \in {Merge(s, c) : s \in partial, c \in SectionCands(key)} :
                         CrossOK(m.X)})

\* the valuations of X, Y, Grad and Undergrad that satisfy every hard constraint
Assignments == Combine(SectionKeys, {NoSol})

(***************************************************************************)
(* Preference records, slack and penalty variables, and the objective.     *)
(* An objective term is <<id, coefficient>>.  The id of a term on an       *)
(* assignment variable is <<"Pref", record, code, row, X name>>; the id of *)
(* a term on a slack or penalty variable is that variable:                 *)
(*   <<"Slack", record, code, row, X name>>                                *)
(*   <<"Z", instructor, day>>                                              *)
(*   <<"Penalty", general row, row, X name part 1, X name part 2>>         *)
(*   <<"ConsecutivePenalty", email, X name part 1, X name part 2>>         *)
(***************************************************************************)
Min(S) == CHOOSE x \in S : \A y \in S : x <= y

\* the records read before a NaN 'Instructor UCID: Type' breaks the loop
PrefRows ==
    {r \in DOMAIN Data.constraints : \A q \in 1..r : Data.constraints[q].Info # <<>>}

protected(constraint_type) == constraint_type \in {"Health", "Religion"}

points(constraint_type) ==
    CASE protected(constraint_type) -> -2048
      [] constraint_type = "Pref-1" -> 8
      [] constraint_type = "Pref-2" -> 4
      [] constraint_type = "Pref-3" -> 2
      [] constraint_type = "Childcare" -> -1024
      [] OTHER -> -8

\* df[df['Email'] == email]; instructor_row['Instructor'].iloc[0]
RosterRows(email) == {r \in DOMAIN df : df[r].Email = email}

instructor_name(email) == df[Min(RosterRows(email))].Instructor

\* the number of sections the preference loops run over for row q
num_sections(health, q) ==
    IF prog = "spring-2026" /\ health
    THEN df[Min({x \in DOMAIN df : df[x].Course = df[q].Course})].Sections
    ELSE FirstRow(df[q].Course, df[q].Instructor).Sections

\* a slot code the loops can index and look up in both mappings
CodeOK(code) ==
    /\ Len(code) >= 2
    /\ code[1] \in DOMAIN time_slot_mapping
    /\ code[2] \in DOMAIN time_slot_index

\* the exception the loops raise at slot code j of record r: the mapping
\* lookups raise KeyError on an unknown day letter or slot digit; fall26 and
\* the spring-2026 preference loop skip a code shorter than 2, the spring-2026
\* Health/Religion loop indexes it and raises IndexError
Raises(r, j) ==
    LET code == Data.constraints[r].Slots[j]
    IN  IF Len(code) < 2
        THEN IF prog = "spring-2026" /\ protected(Data.constraints[r].Info[2])
             THEN "IndexError" ELSE ""
        ELSE IF code[1] \notin DOMAIN time_slot_mapping
                \/ code[2] \notin DOMAIN time_slot_index
             THEN "KeyError" ELSE ""

\* the first exception in processing order ("" when none): fall26 runs one
\* loop over the records; spring-2026 runs the Health/Religion loop over all
\* records before the preference loop
preference_error ==
    LET raising == UNION {{<<r, j>> : j \in {x \in DOMAIN Data.constraints[r].Slots :
                                                Raises(r, x) # ""}}
                          : r \in PrefRows}
        rank(p) == (IF prog = "spring-2026" /\ ~protected(Data.constraints[p[1]].Info[2])
                    THEN 10000 ELSE 0) + 100 * p[1] + p[2]
    IN  IF raising = {} THEN ""
        ELSE LET first == CHOOSE p \in raising : \A q \in raising : rank(p) <= rank(q)
             IN  Raises(first[1], first[2])

\* the terms of record r, slot code j over the variables V
RecordTargets(V, r, j) ==
    LET rec == Data.constraints[r]
        email == rec.Info[1]
        health == protected(rec.Info[2])
        code == rec.Slots[j]
        name == instructor_name(email)
    IN  IF ~CodeOK(code) \/ RosterRows(email) = {} THEN {}
        ELSE UNION {{<<IF health THEN "Slack" ELSE "Pref", r, j, q,
                       XName(df[q].Course, name, kp[1], kp[2],
                             time_slot_mapping[code[1]], time_slot_index[code[2]])>> :
                        kp \in {x \in (1..num_sections(health, q)) \X parts(df[q].Course) :
                                  XName(df[q].Course, name, x[1], x[2],
                                        time_slot_mapping[code[1]],
                                        time_slot_index[code[2]]) \in V}}
                    : q \in RowsOf(name)}

PreferenceTargets(V) ==
    UNION {UNION {RecordTargets(V, r, j) : j \in DOMAIN Data.constraints[r].Slots}
           : r \in PrefRows}

\* Z_{instructor}_{day}: fall26 creates them when the General Preferences
\* sheet has more than 3 columns
z_vars ==
    IF prog = "fall26" /\ Data.columns <= 3 THEN {}
    ELSE {<<"Z", i, d>> : i \in Instructors, d \in Range(days)}

relevant_x_vars(V, instructor, day) ==
    {v \in V : /\ v[3] = instructor /\ v[6] = day /\ v[5] \in parts(v[2])
               /\ v[4] <= FirstRow(v[2], instructor).Sections}

\* day_preference_dict / consecutive_preference: the last row of an email wins
LastRow(email) ==
    Data.general[CHOOSE g \in DOMAIN Data.general :
                    /\ Data.general[g].Email = email
                    /\ \A h \in DOMAIN Data.general : Data.general[h].Email = email => h <= g]

day_penalty_value(instructor) ==
    LET email == df[Min(RowsOf(instructor))].Email
        known == \E g \in DOMAIN Data.general : Data.general[g].Email = email
    IN  IF known /\ LastRow(email).DayPreference
                      = "I prefer to condense my sections into fewer days"
        THEN -8 ELSE -3

\* the adjacent slot pairs of a section that have both variables
AdjacentPairs(V, course, instructor, section_id) ==
    {<<XName(course, instructor, section_id, 1, d, time_slots[i]),
       XName(course, instructor, section_id, 2, d, time_slots[i + 1])>> :
        <<d, i>> \in {x \in Range(days) \X (1..(Len(time_slots) - 1)) :
            /\ XName(course, instructor, section_id, 1, x[1], time_slots[x[2]]) \in V
            /\ XName(course, instructor, section_id, 2, x[1], time_slots[x[2] + 1]) \in V}}

format_penalty_vars(V) ==
    UNION {LET row == Data.general[g]
           IN  IF \/ prog = "fall26" /\ (row.Email = NaN \/ row.Preference = NaN)
                  \/ RosterRows(row.Email) = {}
               THEN {}
               ELSE UNION {UNION {{<<"Penalty", g, q, pr[1], pr[2]>> :
                                     pr \in AdjacentPairs(V, df[q].Course,
                                               instructor_name(row.Email), k)}
                                  : k \in 1..df[q].Sections}
                           : q \in RowsOf(instructor_name(row.Email))}
           : g \in DOMAIN Data.general}

consecutive_penalty_vars(V) ==
    IF prog = "fall26" /\ Data.columns <= 5 THEN {}
    ELSE UNION {IF LastRow(email).ConsecutivePreference # "No" \/ RosterRows(email) = {}
                THEN {}
                ELSE UNION {UNION {{<<"ConsecutivePenalty", email, pr[1], pr[2]>> :
                                      pr \in AdjacentPairs(V, df[q].Course,
                                                instructor_name(email), k)}
                                   : k \in 1..FirstRow(df[q].Course,
                                                       instructor_name(email)).Sections}
                            : q \in RowsOf(instructor_name(email))}
                : email \in {Data.general[g].Email : g \in DOMAIN Data.general}}

\* the name given to model.addVar for a slack or penalty variable: the slack
\* name is built from the assignment variable only; the format penalty name
\* has no course and no section; spring-2026 names its consecutive penalty
\* "Penalty_...", fall26 "ConsecutivePenalty_..."
VarName(a) ==
    CASE a[1] = "Slack" -> <<"Slack", a[5][2], a[5][3], a[5][4], a[5][5], a[5][6], a[5][7]>>
      [] a[1] = "Z" -> a
      [] a[1] = "Penalty" -> <<"Penalty", a[4][3], a[4][6], a[4][7], a[5][7]>>
      [] a[1] = "ConsecutivePenalty" ->
            <<IF prog = "fall26" THEN "ConsecutivePenalty" ELSE "Penalty",
              a[3][3], a[3][6], a[3][7], a[4][7]>>

\* a faulty objective: the terms of a build are added to the expression left
\* by the previous build, which doubles their coefficients
accumulated_coefficient(id) ==
    (IF total_points = {} THEN 1 ELSE 2)
      * (CASE id[1] = "Slack" -> -2048
           [] id[1] = "Pref" -> points(Data.constraints[id[2]].Info[2])
           [] id[1] = "Z" -> day_penalty_value(id[2])
           [] id[1] = "Penalty" -> -8
           [] id[1] = "ConsecutivePenalty" -> -2048)

\* the coefficient each builder puts on its term
Coefficient(id) ==
    CASE id[1] = "Slack" -> -2048
      [] id[1] = "Pref" -> points(Data.constraints[id[2]].Info[2])
      [] id[1] = "Z" -> day_penalty_value(id[2])
      [] id[1] = "Penalty" -> -8
      [] id[1] = "ConsecutivePenalty" -> -2048

Val(X, v) == IF v \in X THEN 1 ELSE 0

\* model.addConstr(variables[var_name] <= slack_var)
slack_constraint(x_var, slack_var) == x_var <= slack_var

\* x_var <= z_var for every relevant variable; z_var == 0 when there is none
z_constraint(X, instructor, day, z_var) ==
    /\ \A v \in relevant_x_vars(variables, instructor, day) : Val(X, v) <= z_var
    /\ relevant_x_vars(variables, instructor, day) = {} => z_var = 0

format_constraint(preference, part1_var, part2_var, penalty_var) ==
    IF preference = "3-hour format"
    THEN /\ part1_var - part2_var <= penalty_var
         /\ part2_var - part1_var <= penalty_var
    ELSE IF preference = "1.5+1.5 hour format"
         THEN part1_var + part2_var - penalty_var <= 1
         ELSE TRUE

consecutive_constraint(x_var1, x_var2, penalty_var) ==
    x_var1 + x_var2 - 2 * penalty_var <= 1

\* the constraints that mention the slack or penalty variable a, at value b
AuxOK(X, a, b) ==
    CASE a[1] = "Slack" -> slack_constraint(Val(X, a[5]), b)
      [] a[1] = "Z" -> z_constraint(X, a[2], a[3], b)
      [] a[1] = "Penalty" ->
            format_constraint(Data.general[a[2]].Preference, Val(X, a[4]), Val(X, a[5]), b)
      [] a[1] = "ConsecutivePenalty" -> consecutive_constraint(Val(X, a[3]), Val(X, a[4]), b)

\* Every such constraint mentions one slack or penalty variable only, so
\* given X each of them ranges over its own allowed values; the valuations
\* with at most MaxFlip of them above their least allowed value are kept.
AuxCands(X) ==
    LET A == slack_vars \cup penalty_vars
    IN  UNION {IF \E a \in forced : ~AuxOK(X, a, 1) THEN {}
               ELSE {forced \cup E :
                       E \in SubsetsUpTo({a \in A \ forced : AuxOK(X, a, 1)}, MaxFlip)}
               : forced \in {{a \in A : ~AuxOK(X, a, 0)}}}

\* the feasible points of the model
Solutions ==
    UNION {{[s EXCEPT !.Aux = a] : a \in AuxCands(s.X)} : s \in Assignments}

Coefs == <<-2048, -1024, -8, -3, 2, 4, 8>>

\* value of the objective expression total_points at a point
Objective(terms, s) ==
    LET on == {t \in terms : IF t[1][1] = "Pref" THEN t[1][5] \in s.X ELSE t[1] \in s.Aux}
    IN  SumSeq([n \in DOMAIN Coefs |-> Coefs[n] * Cardinality({t \in on : t[2] = Coefs[n]})])

\* the objective values of the feasible points
ObjVals ==
    UNION {{Objective(total_points, [s EXCEPT !.Aux = a]) : a \in AuxCands(s.X)}
           : s \in Assignments}

Init ==
    /\ \E run \in Runs : prog = run[1] /\ input = run[2]
    /\ excel_file = Instances[input]
    /\ pc = "start"
    /\ df = <<>>
    /\ section_capacity_map = <<>>
    /\ section_type_map = <<>>
    /\ variables = {}
    /\ zero_constrs = {}
    /\ slack_vars = {}
    /\ penalty_vars = {}
    /\ total_points = {}
    /\ status = "NONE"
    /\ sol = NoSol
    /\ ObjVal = 0
    /\ SolCount = 0
    /\ console = <<>>
    /\ files = {}
    /\ computeIIS = FALSE
    /\ rebuilds = <<>>

\* load_and_process_data / load_data and the two section maps
Load ==
    /\ pc = "start"
    /\ pc' = "loaded"
    /\ df' = IF prog = "fall26" THEN aggregated_df(Data.rows) ELSE merged_df(Data.rows)
    /\ section_capacity_map' = create_section_capacity_map(Data.rows)
    /\ section_type_map' = IF prog = "fall26" THEN create_section_type_map(Data.rows) ELSE <<>>
    /\ UNCHANGED <<prog, input, excel_file, variables, zero_constrs, slack_vars, penalty_vars,
                   total_points, status, sol, ObjVal, SolCount, console, files,
                   computeIIS, rebuilds>>

\* build_model / the builders called by main: variables, constraints,
\* objective; an exception raised by a builder ends the program
Build ==
    /\ pc = "loaded"
    /\ IF preference_error # ""
       THEN /\ pc' = "crashed"
            /\ console' = <<preference_error>>
            /\ UNCHANGED <<variables, zero_constrs, slack_vars, penalty_vars, total_points>>
       ELSE /\ pc' = "built"
            /\ console' = console
            /\ LET V == create_decision_variables(df)
                   targets == PreferenceTargets(V)
                   penalties == z_vars \cup format_penalty_vars(V)
                                  \cup consecutive_penalty_vars(V)
               IN  /\ variables' = V
                   /\ zero_constrs' = ZeroConstraints(V)
                   /\ slack_vars' = {t \in targets : t[1] = "Slack"}
                   /\ penalty_vars' = penalties
                   /\ total_points' = {<<id, Coefficient(id)>> : id \in targets \cup penalties}
    /\ UNCHANGED <<prog, input, excel_file, df, section_capacity_map, section_type_map,
                   status, sol, ObjVal, SolCount, files, computeIIS, rebuilds>>

\* the order in which the loops of build_model / create_decision_variables
\* create the assignment variables: rows, sections, parts, days, slots
variable_order(frame) ==
    Flatten([r \in DOMAIN frame |->
        LET P == Cardinality(parts(frame[r].Course))
        IN  [n \in 1..(frame[r].Sections * P * Len(days) * Len(time_slots)) |->
                LET cells == Len(days) * Len(time_slots)
                    cell == CellAt(((n - 1) % cells) + 1)
                IN  XName(frame[r].Course, frame[r].Instructor,
                          ((n - 1) \div (P * cells)) + 1,
                          (((n - 1) % (P * cells)) \div cells) + 1,
                          cell[1], cell[2])]])

\* the model a call of the builders yields for the frame
build_model(frame) ==
    LET V == create_decision_variables(frame)
        targets == PreferenceTargets(V)
        penalties == z_vars \cup format_penalty_vars(V) \cup consecutive_penalty_vars(V)
    IN  [variables |-> V,
         order |-> variable_order(frame),
         zero_constrs |-> ZeroConstraints(V),
         slack_vars |-> {t \in targets : t[1] = "Slack"},
         penalty_vars |-> penalties,
         total_points |-> {<<id, Coefficient(id)>> : id \in targets \cup penalties}]

\* the builders run once more on the same input records
Rebuild ==
    /\ pc = "built"
    /\ Len(rebuilds) < MaxRebuilds
    /\ rebuilds' = Append(rebuilds, build_model(df))
    /\ UNCHANGED <<prog, input, excel_file, pc, df, section_capacity_map, section_type_map,
                   variables, zero_constrs, slack_vars, penalty_vars, total_points,
                   status, sol, ObjVal, SolCount, console, files, computeIIS>>

\* model.optimize(): when no point is feasible the solver answers INFEASIBLE,
\* or INF_OR_UNBD when its presolve stops at "infeasible or unbounded" (the
\* programs leave DualReductions at its default); otherwise any feasible
\* point can be the incumbent when the time limit hits, and OPTIMAL reports
\* a point of the greatest objective value.  The time limit can also hit
\* before any incumbent is found (SolCount = 0).
Optimize ==
    /\ pc = "built"
    /\ pc' = "done"
    /\ \E vals \in {ObjVals} :
          \/ status' = "TIME_LIMIT" /\ sol' = NoSol /\ ObjVal' = 0 /\ SolCount' = 0
          \/ /\ vals = {}
             /\ status' \in {"INFEASIBLE", "INF_OR_UNBD"}
             /\ sol' = NoSol /\ ObjVal' = 0 /\ SolCount' = 0
          \/ /\ vals # {}
             /\ SolCount' = 1
             /\ \E best \in {CHOOSE b \in vals : \A c \in vals : c <= b} :
                   \E s \in Assignments : \E a \in AuxCands(s.X) :
                      \E val \in {Objective(total_points, [s EXCEPT !.Aux = a])} :
                         /\ sol' = [s EXCEPT !.Aux = a]
                         /\ ObjVal' = val
                         /\ status' \in IF val = best THEN {"OPTIMAL", "TIME_LIMIT"}
                                         ELSE {"TIME_LIMIT"}
    /\ UNCHANGED <<prog, input, excel_file, df, section_capacity_map, section_type_map,
                   variables, zero_constrs, slack_vars, penalty_vars, total_points,
                   console, files, computeIIS, rebuilds>>

\* fall26 main after model.optimize(): the status line, then the outputs
main_report ==
    LET line == CASE status = "INFEASIBLE" -> <<"Model is infeasible">>
                  [] status = "TIME_LIMIT" ->
                        IF SolCount > 0 /\ ObjVal # 0
                        THEN <<"Time limit reached - Best solution found with gap">>
                        ELSE <<"Time limit reached - no feasible solution found">>
                  [] OTHER -> <<"Optimal solution found">>
    IN  IF status = "INFEASIBLE"
        THEN /\ console' = line
             /\ computeIIS' = TRUE
             /\ files' = {"infeasible_model_analysis"}
        ELSE IF SolCount = 0
        THEN /\ console' = line \o <<"No feasible solution to report.">>
             /\ computeIIS' = FALSE
             /\ files' = {}
        ELSE /\ console' = line \o <<"Objective value">>
             /\ computeIIS' = FALSE
             /\ files' = {"short_audit", "final_schedule_sorted_by_course",
                          "final_schedule_sorted_by_instructor", "impact_analysis",
                          "constraint_violations", "scheduling_percentages",
                          "instructors_days_analysis"}

\* spring-2026 main after solve_model: analyze_solution and generate_output_files;
\* reading var.x without an incumbent raises AttributeError
analyze_solution ==
    /\ computeIIS' = FALSE
    /\ IF status = "INFEASIBLE"
       THEN /\ console' = <<"The model is infeasible. Check constraints for conflicts.">>
            /\ files' = {}
       ELSE IF SolCount = 0
       THEN console' = <<"AttributeError">> /\ files' = {}
       ELSE /\ console' = <<"Analyzing solution...">>
            /\ files' = IF sol.X = {} THEN {}
                         ELSE {"final_schedule_sorted_by_course",
                               "final_schedule_sorted_by_instructor",
                               "instructors_sorted_by_days_on_campus"}

Report ==
    /\ pc = "done"
    /\ pc' = "reported"
    /\ IF prog = "fall26" THEN main_report ELSE analyze_solution
    /\ UNCHANGED <<prog, input, excel_file, df, section_capacity_map, section_type_map,
                   variables, zero_constrs, slack_vars, penalty_vars, total_points,
                   status, sol, ObjVal, SolCount, rebuilds>>

Next == Load \/ Build \/ Optimize \/ Report

Spec == Init /\ [][Next]_vars

\* the inputs under both programs, except the inputs with two rows of one
\* pair or off-site sections under spring-2026 and the inputs with ten or
\* more instructors
AllRuns ==
    ({"fall26", "spring-2026"} \X DOMAIN Instances)
       \ {<<"spring-2026", 12>>, <<"spring-2026", 13>>, <<"spring-2026", 14>>,
          <<"spring-2026", 15>>, <<"spring-2026", 16>>, <<"fall26", 16>>,
          <<"fall26", 19>>, <<"spring-2026", 19>>}

InitAll ==
    /\ \E run \in AllRuns : prog = run[1] /\ input = run[2]
    /\ excel_file = Instances[input]
    /\ pc = "start"
    /\ df = <<>>
    /\ section_capacity_map = <<>>
    /\ section_type_map = <<>>
    /\ variables = {}
    /\ zero_constrs = {}
    /\ slack_vars = {}
    /\ penalty_vars = {}
    /\ total_points = {}
    /\ status = "NONE"
    /\ sol = NoSol
    /\ ObjVal = 0
    /\ SolCount = 0
    /\ console = <<>>
    /\ files = {}
    /\ computeIIS = FALSE
    /\ rebuilds = <<>>

NextRebuild == Load \/ Build \/ Rebuild

\* the builders applied repeatedly to every input
SpecRebuild == InitAll /\ [][NextRebuild]_vars

(***************************************************************************)
(* Properties of the built model and of the solutions it accepts.          *)
(***************************************************************************)
Accepted == pc = "done" /\ status \in {"OPTIMAL", "TIME_LIMIT"} /\ SolCount > 0

Optimal == pc = "done" /\ status = "OPTIMAL"

\* the assignment variables at 1 of one section part
Placed(course, instructor, section_id, part) ==
    {v \in sol.X : v[2] = course /\ v[3] = instructor /\ v[4] = section_id /\ v[5] = part}

\* C1: in every accepted solution, every part of every section has exactly
\* one assignment variable X(course, instructor, section, part, day, slot)
\* equal to 1 over all (day, slot).
C1_ExactlyOneSlotPerPart ==
    Accepted =>
       \A r \in DOMAIN df : \A k \in 1..df[r].Sections : \A p \in parts(df[r].Course) :
          Cardinality(Placed(df[r].Course, df[r].Instructor, k, p)) = 1

\* an accepted solution of a row with several sections, every part placed
C1_Witness ==
    /\ Accepted
    /\ \E r \in DOMAIN df :
          /\ df[r].Sections >= 2
          /\ \A k \in 1..df[r].Sections : \A p \in parts(df[r].Course) :
                Placed(df[r].Course, df[r].Instructor, k, p) # {}

\* C2: in every accepted solution, for every (instructor, day, slot), at most
\* one assignment variable of that instructor equals 1.
C2_InstructorOnePerSlot ==
    Accepted =>
       \A v \in sol.X : \A w \in sol.X :
          (v[3] = w[3] /\ v[6] = w[6] /\ v[7] = w[7]) => v = w

\* an accepted solution where two sections of one instructor meet on the same day
C2_Witness ==
    /\ Accepted
    /\ \E v \in sol.X : \E w \in sol.X :
          v[3] = w[3] /\ v[4] # w[4] /\ v[6] = w[6] /\ v[7] # w[7]

\* C3: in every accepted solution each section has exactly one of its
\* Grad/Undergrad indicators at 1 and exactly one pairing variable at 1, and
\* that pairing obeys the selected pattern: Grad - same day, second slot right
\* after the first, first slot 8:30 or 6:00 on Monday-Thursday or a Friday
\* start time on Friday; Undergrad - same slot on (Mon,Wed), (Mon,Thu),
\* (Tue,Thu), (Tue,Fri) or (Wed,Fri).
C3_PatternObeyed ==
    Accepted =>
       \A key \in SectionKeys :
          LET grad == <<"Grad", key[1], key[2], key[3]>> \in sol.Grad
              undergrad == <<"Undergrad", key[1], key[2], key[3]>> \in sol.Undergrad
              ys == {y \in sol.Y : y[2] = key[1] /\ y[3] = key[2] /\ y[4] = key[3]}
          IN  /\ grad # undergrad
              /\ Cardinality(ys) = 1
              /\ \A y \in ys :
                    IF grad
                    THEN /\ y[5] = y[7]
                         /\ SlotIndex(y[8]) = SlotIndex(y[6]) + 1
                         /\ IF y[5] = "Friday"
                            THEN y[6] \in {"8:30-10:00 AM", "1:00-2:30 PM", "2:30-4:00 PM",
                                           "4:00-5:30 PM", "6:00-7:30 PM", "7:30-9:00 PM"}
                            ELSE y[6] \in {"8:30-10:00 AM", "6:00-7:30 PM"}
                    ELSE /\ y[6] = y[8]
                         /\ <<y[5], y[7]>> \in {<<"Monday", "Wednesday">>,
                                                <<"Monday", "Thursday">>,
                                                <<"Tuesday", "Thursday">>,
                                                <<"Tuesday", "Friday">>,
                                                <<"Wednesday", "Friday">>}

\* C4: in every accepted solution no assignment variable, of any section,
\* equals 1 at Friday 11:30-1:00 PM, Wednesday 2:30-4:00 PM or Wednesday
\* 4:00-5:30 PM.
C4_NoBannedSlot ==
    Accepted =>
       \A v \in sol.X :
          <<v[6], v[7]>> \notin {<<"Friday", "11:30-1:00 PM">>,
                                 <<"Wednesday", "2:30-4:00 PM">>,
                                 <<"Wednesday", "4:00-5:30 PM">>}

\* an accepted solution that uses Wednesday and Friday
C4_Witness ==
    /\ Accepted
    /\ \E v \in sol.X : v[6] = "Wednesday"
    /\ \E v \in sol.X : v[6] = "Friday"

\* C5: in every solution accepted by the fall26 model, for every
\* non-designated course block and every (day, slot, part), at most one
\* course of the block has a section with that part at that (day, slot).
C5_BlockAtMostOneCourse ==
    (Accepted /\ prog = "fall26") =>
       \A b \in DOMAIN course_blocks :
          course_blocks[b] \notin special_blocks =>
             \A c \in Cells : \A part \in {1, 2} :
                Cardinality({course \in course_blocks[b] :
                    \E v \in sol.X : /\ v[2] = course /\ v[5] = part
                                     /\ v[6] = c[1] /\ v[7] = c[2]}) <= 1

\* C6: in every solution accepted by the spring-2026 model, for every
\* designated course block and every (day, slot, part), at most 2 assignment
\* variables of the block's courses equal 1.
C6_DesignatedBlockAtMostTwo ==
    (Accepted /\ prog = "spring-2026") =>
       \A block \in special_blocks : \A c \in Cells : \A part \in {1, 2} :
          Cardinality({v \in sol.X : /\ v[2] \in block /\ v[5] = part
                                     /\ v[6] = c[1] /\ v[7] = c[2]}) <= 2

\* the assignment variable v sits at a slot some Health/Religion record of
\* its instructor lists
ProtectedAt(v) ==
    \E r \in PrefRows :
       LET rec == Data.constraints[r]
       IN  /\ protected(rec.Info[2])
           /\ RosterRows(rec.Info[1]) # {}
           /\ instructor_name(rec.Info[1]) = v[3]
           /\ \E j \in DOMAIN rec.Slots :
                 /\ CodeOK(rec.Slots[j])
                 /\ time_slot_mapping[rec.Slots[j][1]] = v[6]
                 /\ time_slot_index[rec.Slots[j][2]] = v[7]

\* C7: at an optimum the Health/Religion part of the objective is -2048 times
\* the number of distinct assignment variables that equal 1 at a protected
\* slot of their instructor, however often that slot is listed.
C7_OneWeightPerViolatedVariable ==
    Optimal =>
       Objective({t \in total_points : t[1][1] = "Slack"}, sol)
          = -2048 * Cardinality({v \in sol.X : ProtectedAt(v)})

\* C8: in the spring-2026 model, for every Health/Religion record of a roster
\* instructor and every listed (day, slot), every assignment variable of that
\* instructor at that (day, slot) is bounded by a slack variable of its own
\* that has weight -2048 in the objective.
C8_EveryVariableHasSlack ==
    (prog = "spring-2026" /\ pc \in {"built", "done"}) =>
       \A r \in PrefRows :
          LET rec == Data.constraints[r]
          IN  (protected(rec.Info[2]) /\ RosterRows(rec.Info[1]) # {}) =>
                 \A j \in DOMAIN rec.Slots : \A v \in variables :
                    (/\ CodeOK(rec.Slots[j])
                     /\ v[3] = instructor_name(rec.Info[1])
                     /\ v[6] = time_slot_mapping[rec.Slots[j][1]]
                     /\ v[7] = time_slot_index[rec.Slots[j][2]])
                    => \E a \in slack_vars :
                          /\ a[2] = r /\ a[3] = j /\ a[5] = v
                          /\ <<a, -2048>> \in total_points

ProtectedViolations(s) == Cardinality({a \in s.Aux : a[1] = "Slack"})

\* C9: every optimal solution has the least number of protected slack
\* variables at 1 that any feasible solution has.
C9_ProtectedWeightDominates ==
    (Optimal /\ slack_vars # {}) =>
       \A s \in Solutions : ProtectedViolations(sol) <= ProtectedViolations(s)

\* the violation condition of a slack or penalty variable
Condition(a) ==
    CASE a[1] = "Slack" -> a[5] \in sol.X
      [] a[1] = "Z" -> \E v \in sol.X : v[3] = a[2] /\ v[6] = a[3]
      [] a[1] = "ConsecutivePenalty" -> a[3] \in sol.X /\ a[4] \in sol.X
      [] a[1] = "Penalty" ->
            IF Data.general[a[2]].Preference = "3-hour format"
            THEN (a[4] \in sol.X) # (a[5] \in sol.X)
            ELSE a[4] \in sol.X /\ a[5] \in sol.X

\* the penalty variables the statement is about
Stated(a) ==
    a[1] = "Penalty" =>
       Data.general[a[2]].Preference \in {"3-hour format", "1.5+1.5 hour format"}

\* C10: in every optimal solution each slack, Z, consecutive and format
\* penalty variable is 1 exactly when its violation condition holds, and in
\* every feasible solution it is 1 whenever the condition holds.
C10_PenaltyIffCondition ==
    /\ Accepted =>
          \A a \in slack_vars \cup penalty_vars :
             (Stated(a) /\ Condition(a)) => a \in sol.Aux
    /\ Optimal =>
          \A a \in slack_vars \cup penalty_vars :
             Stated(a) => (a \in sol.Aux <=> Condition(a))

\* C11: for the input with one course, one instructor and two sections and no
\* preference records, the model is feasible, the two sections of an accepted
\* solution occupy disjoint (day, slot) sets, and the optimum has objective
\* value 0 with no slack or penalty variable at 1.
C11_OneCourseOptimumZero ==
    (input = 1 /\ pc = "done") =>
       /\ status # "INFEASIBLE"
       /\ Accepted =>
             {<<v[6], v[7]>> : v \in {x \in sol.X : x[4] = 1}}
                \cap {<<v[6], v[7]>> : v \in {x \in sol.X : x[4] = 2}} = {}
       /\ Optimal => (ObjVal = 0 /\ sol.Aux = {})

\* C12: after optimization fall26's main reports three outcomes differently:
\* Optimal; time limit with an incumbent, always reported as a best solution
\* with its gap and written to the output files; time limit without an
\* incumbent, reported as no solution found, not as infeasible, with no
\* output file.
C12_ThreeOutcomesReported ==
    (prog = "fall26" /\ pc = "reported") =>
       /\ status = "OPTIMAL" => console[1] = "Optimal solution found"
       /\ (status = "TIME_LIMIT" /\ SolCount > 0) =>
             /\ console[1] = "Time limit reached - Best solution found with gap"
             /\ "final_schedule_sorted_by_course" \in files
       /\ (status = "TIME_LIMIT" /\ SolCount = 0) =>
             /\ console[1] = "Time limit reached - no feasible solution found"
             /\ files = {}
             /\ ~computeIIS

\* C13: an infeasible run is terminal: the IIS is requested and the
\* conflicting constraints are written, no schedule, audit, violation or
\* percentage output is produced, and the model is not built or solved again.
C13_InfeasibleIsTerminal ==
    (pc = "reported" /\ status = "INFEASIBLE") =>
       /\ computeIIS
       /\ files = {"infeasible_model_analysis"}
       /\ ~ENABLED (Build \/ Optimize)

\* C14: a malformed slot code (shorter than two characters, or with an
\* unknown day letter or slot digit) is skipped on its own: model
\* construction completes, and every well-formed code of every record read
\* still contributes its term on the instructor's variables.
C14_MalformedCodeSkipped ==
    /\ pc # "crashed"
    /\ pc = "built" =>
          \A r \in PrefRows : \A j \in DOMAIN Data.constraints[r].Slots :
             (CodeOK(Data.constraints[r].Slots[j])
                /\ RosterRows(Data.constraints[r].Info[1]) # {}) =>
                \E t \in total_points :
                   /\ t[1][1] \in {"Slack", "Pref"}
                   /\ t[1][2] = r /\ t[1][3] = j
                   /\ t[1][5][6] = time_slot_mapping[Data.constraints[r].Slots[j][1]]
                   /\ t[1][5][7] = time_slot_index[Data.constraints[r].Slots[j][2]]

\* the assignment variable v is at the instructor, day and slot of a
\* pre-scheduled entry
PreScheduledAt(v) ==
    \E r \in DOMAIN Data.pre_scheduled :
       /\ v[3] = Data.pre_scheduled[r].Instructor
       /\ v[6] = Data.pre_scheduled[r].Day
       /\ v[7] = Data.pre_scheduled[r].Time

\* C15: every assignment variable of a pre-scheduled entry's instructor at
\* its (day, slot) is forced to 0, so no accepted solution places a part
\* there; the entries force no other assignment variable.
C15_PreScheduledForcedToZero ==
    /\ pc = "built" =>
          /\ \A v \in variables : PreScheduledAt(v) => v \in zero_constrs
          /\ add_pre_scheduled_constraints(variables) = {v \in variables : PreScheduledAt(v)}
    /\ Accepted =>
          \A busy \in {{<<Data.pre_scheduled[r].Instructor, Data.pre_scheduled[r].Day,
                           Data.pre_scheduled[r].Time>> : r \in DOMAIN Data.pre_scheduled}} :
             \A v \in sol.X : <<v[3], v[6], v[7]>> \notin busy

\* an accepted solution of an input with pre-scheduled entries, the
\* instructor having free and blocked cells
C15_Witness ==
    /\ Accepted
    /\ sol.X # {}
    /\ \E v \in variables : PreScheduledAt(v)
    /\ \E v \in variables : ~PreScheduledAt(v) /\ v \notin sol.X

\* C16: for every section index of a (course, instructor) pair, the capacity
\* of create_section_capacity_map and the subtype of create_section_type_map
\* are those of one and the same offering row.
C16_CapacityAndTypeOfSameRow ==
    (prog = "fall26" /\ pc # "start") =>
       \A key \in DOMAIN section_capacity_map :
          /\ key \in DOMAIN section_type_map
          /\ \E r \in DOMAIN Data.rows :
                /\ Data.rows[r].Course = key[1]
                /\ Data.rows[r].Instructor = key[2]
                /\ Data.rows[r].Capacity = section_capacity_map[key]
                /\ Data.rows[r].Section_Type = section_type_map[key]

\* C17: no two distinct slack or penalty variables of a model share a name,
\* so a name identifies one variable, one penalty family and one weight.
C17_PenaltyNamesUnique ==
    pc = "built" =>
       \A a, b \in slack_vars \cup penalty_vars :
          VarName(a) = VarName(b) => a = b

C19_PairingAgreesWithParts ==
    Accepted =>
       \A key \in SectionKeys :
          /\ Cardinality({y \in sol.Y : <<y[2], y[3], y[4]>> = key}) = 1
          /\ \A y \in sol.Y :
                <<y[2], y[3], y[4]>> = key =>
                   /\ Placed(key[1], key[2], key[3], 1)
                         = {XName(key[1], key[2], key[3], 1, y[5], y[6])}
                   /\ Placed(key[1], key[2], key[3], 2)
                         = {XName(key[1], key[2], key[3], 2, y[7], y[8])}

\* the test of the Monday 4:00-5:30 PM rule applied to one section: course
\* number above 199 and capacity of that section below 35
MeetsMondayCondition(v) ==
    LET key == <<v[2], v[3], v[4]>>
        number == Course_Number(v[2])
    IN  /\ number # <<>> /\ number[1] > 199
        /\ key \in DOMAIN section_capacity_map
        /\ section_capacity_map[key] < 35

\* C20: in the built model the Monday 4:00-5:30 PM rule forces an
\* assignment variable of that cell to 0 if and only if the section of the
\* variable fails (course number > 199 and capacity < 35); the capacities of
\* the other sections of the same course and instructor play no part.
C20_MondayRuleIsPerSection ==
    pc = "built" =>
       \A v \in variables :
          (v[6] = "Monday" /\ v[7] = "4:00-5:30 PM" /\ v[5] \in {1, 2}) =>
             (v \in restricted_slot(variables) <=> ~MeetsMondayCondition(v))

\* C21: in every accepted solution of the fall26 model every off-site
\* (Jersey City) section has part 1 at 6:00-7:30 PM and part 2 at
\* 7:30-9:00 PM of one day, and its Grad indicator is 1.
C21_OffSiteEveningGrad ==
    (Accepted /\ prog = "fall26") =>
       \A key \in JCKeys \cap SectionKeys :
          /\ \E day \in Range(days) :
                /\ Placed(key[1], key[2], key[3], 1)
                      = {XName(key[1], key[2], key[3], 1, day, "6:00-7:30 PM")}
                /\ Placed(key[1], key[2], key[3], 2)
                      = {XName(key[1], key[2], key[3], 2, day, "7:30-9:00 PM")}
          /\ <<"Grad", key[1], key[2], key[3]>> \in sol.Grad

\* an accepted fall26 solution with off-site sections of two instructors
C21_Witness ==
    /\ Accepted /\ prog = "fall26"
    /\ \E k1 \in JCKeys \cap SectionKeys : \E k2 \in JCKeys \cap SectionKeys :
          /\ k1[2] # k2[2]
          /\ Placed(k1[1], k1[2], k1[3], 1) # {}
          /\ Placed(k2[1], k2[2], k2[3], 2) # {}

\* C22: in every accepted solution of the fall26 model, in every non-banned
\* (day, slot) the number of parts of sections that are not off-site is at
\* most ceil(fraction x T / 6), T = 2 x (number of sections, off-site ones
\* included), fraction = 0.25 in Wednesday's first four slots and 0.20
\* elsewhere; parts of off-site sections are not counted.
C22_SlotCapOnOnSiteParts ==
    (Accepted /\ prog = "fall26") =>
       \A T \in {2 * SumSeq([r \in DOMAIN Data.rows |-> Data.rows[r].Sections])} :
          \A v \in sol.X :
             (<<v[2], v[3], v[4]>> \notin JCKeys /\ <<v[6], v[7]>> \notin banned_slots) =>
                Cardinality({w \in sol.X : /\ w[6] = v[6] /\ w[7] = v[7]
                                           /\ <<w[2], w[3], w[4]>> \notin JCKeys}) * 600
                   < (IF v[6] = "Wednesday" /\ SlotIndex(v[7]) <= 4 THEN 25 ELSE 20) * T + 600

\* an accepted fall26 solution with an on-site part alone in its cell, at the
\* cap, while two off-site parts share one cell
C22_Witness ==
    /\ Accepted /\ prog = "fall26"
    /\ 2 * SumSeq([r \in DOMAIN Data.rows |-> Data.rows[r].Sections]) <= 30
    /\ \E v \in sol.X : <<v[2], v[3], v[4]>> \notin JCKeys
    /\ \E v \in sol.X : \E w \in sol.X :
          /\ v # w /\ v[6] = w[6] /\ v[7] = w[7]
          /\ <<v[2], v[3], v[4]>> \in JCKeys /\ <<w[2], w[3], w[4]>> \in JCKeys

\* C23: in every accepted solution the number of parts of sections that are
\* not off-site placed in the two evening slots together, over all days, is
\* at most (0.20 / 6) x total part-count.
C23_EveningCapOnBothSlots ==
    Accepted =>
       600 * Cardinality({v \in sol.X : /\ v[7] \in evening_slots
                                        /\ <<v[2], v[3], v[4]>> \notin JCKeys})
          <= evening_percentage * total_section_parts

MiddleDigit7(course) ==
    Course_Number(course) # <<>> /\ (Course_Number(course)[1] \div 10) % 10 = 7

\* the part 1 variables at 8:30-10:00 AM that no other rule (pre-scheduled
\* entry, off-site pin) forces to 0
FreePart1At830 ==
    {v \in variables : /\ v[5] = 1 /\ v[7] = "8:30-10:00 AM"
                       /\ ~PreScheduledAt(v)
                       /\ <<v[2], v[3], v[4]>> \notin JCKeys}

C26_EveryPartFollowsPairing ==
    (Accepted /\ prog = "spring-2026") =>
       \A y \in sol.Y : \A v \in sol.X :
          <<v[2], v[3], v[4]>> = <<y[2], y[3], y[4]>> =>
             <<v[6], v[7]>> \in {<<y[5], y[6]>>, <<y[7], y[8]>>}

\* C27: in every accepted solution part 1 of a section is at 6:00-7:30 PM
\* on a day if and only if part 2 of the section is at 7:30-9:00 PM on that
\* day, and no section whose Undergrad indicator is 1 has a part in an
\* evening slot.
C27_EveningPartsTogether ==
    Accepted =>
       /\ \A key \in SectionKeys : \A day \in Range(days) :
             XName(key[1], key[2], key[3], 1, day, "6:00-7:30 PM") \in sol.X
                <=> XName(key[1], key[2], key[3], 2, day, "7:30-9:00 PM") \in sol.X
       /\ \A u \in sol.Undergrad : \A v \in sol.X :
             <<v[2], v[3], v[4]>> = <<u[2], u[3], u[4]>> => v[7] \notin evening_slots

\* C28: every preference record that names a roster instructor contributes
\* its terms wherever it stands in the record list: once the model is built,
\* each well-formed slot code of such a record that meets an assignment
\* variable of the instructor has a term of its own in the objective.
C28_RecordsContributeAtAnyPosition ==
    pc \in {"built", "done"} =>
       \A r \in {q \in DOMAIN Data.constraints : Data.constraints[q].Info # <<>>} :
          \A j \in DOMAIN Data.constraints[r].Slots :
             (/\ CodeOK(Data.constraints[r].Slots[j])
              /\ RosterRows(Data.constraints[r].Info[1]) # {}
              /\ \E v \in variables :
                    /\ v[3] = instructor_name(Data.constraints[r].Info[1])
                    /\ v[6] = time_slot_mapping[Data.constraints[r].Slots[j][1]]
                    /\ v[7] = time_slot_index[Data.constraints[r].Slots[j][2]])
             => \E t \in total_points :
                   /\ t[1][1] \in {"Slack", "Pref"}
                   /\ t[1][2] = r /\ t[1][3] = j

\* the rows of df whose pass through the variable loop writes the names of
\* section key
GeneratingRows(key) ==
    {r \in DOMAIN df : /\ df[r].Course = key[1] /\ df[r].Instructor = key[2]
                       /\ key[3] \in 1..df[r].Sections}

\* C29: in the spring-2026 program the sections that own assignment
\* variables are the sections of section_capacity_map, and no variable name
\* is generated twice.
C29_VariablesMatchCapacityMap ==
    (prog = "spring-2026" /\ pc \in {"built", "done"}) =>
       /\ SectionKeys = DOMAIN section_capacity_map
       /\ \A key \in SectionKeys : Cardinality(GeneratingRows(key)) = 1

\* C30: main of the fall26 program prints 'Optimal solution found' only
\* when the solver status is OPTIMAL.
C30_OptimalLineOnlyWhenOptimal ==
    (prog = "fall26" /\ pc = "reported") =>
       \A n \in DOMAIN console :
          console[n] = "Optimal solution found" => status = "OPTIMAL"
====
